---- MODULE Spec2Model ----
(***************************************************************************)
(* A model of src/server.py, the HubSpot MCP server.  Every tool is one    *)
(* action: it receives the responses the HubSpot API gives to the requests *)
(* the tool issues, and leaves behind the object the tool returns, the log *)
(* of the requests it issued and whether an exception was raised inside.   *)
(* The server keeps no state between two invocations, so a behaviour is    *)
(* one invocation.                                                         *)
(***************************************************************************)
EXTENDS Integers, Sequences, FiniteSets, TLC

VARIABLES tool, api, result, requests, fault

vars == <<tool, api, result, requests, fault>>

(***************************************************************************)
(* Bounds of the model.                                                    *)
(***************************************************************************)
\* the longest association list, and the number of linked record ids
MaxLinks == 2
\* the longest deal-stage history feed
MaxHist == 2

Ids == 1..MaxLinks

(***************************************************************************)
(* Python values.  A str is a sequence of one-character strings; str       *)
(* comparison is lexicographic by code point.  A dict is a function on     *)
(* its keys.  A value that may be a str, None or absent is tagged.         *)
(***************************************************************************)
Digits == <<"0", "1", "2", "3", "4", "5", "6", "7", "8", "9">>

\* the characters of the model in code point order: '.' < '0'..'9' < 'Z' < 'x'
CodeOrder == <<".">> \o Digits \o <<"Z", "x">>

Ord(c) == CHOOSE i \in 1..Len(CodeOrder) : CodeOrder[i] = c

RECURSIVE StrLess(_, _)
StrLess(a, b) ==
    IF a = <<>> THEN b # <<>>
    ELSE IF b = <<>> THEN FALSE
    ELSE IF Head(a) = Head(b) THEN StrLess(Tail(a), Tail(b))
    ELSE Ord(Head(a)) < Ord(Head(b))

EmptyDict == [k \in {} |-> <<>>]

Get(d, k, default) == IF k \in DOMAIN d THEN d[k] ELSE default

None == [t |-> "None"]
Str(s) == [t |-> "str", s |-> s]

Range(s) == {s[i] : i \in DOMAIN s}

SeqsUpTo(S, n) == UNION {[1..k -> S] : k \in 0..n}

(***************************************************************************)
(* list.sort(key=..., reverse=...): a TypeError when two keys are compared *)
(* and one of them is None, and a stable sort otherwise (reverse=True      *)
(* keeps the original order of equal keys).                                *)
(***************************************************************************)
SortRaises(keys) == Len(keys) >= 2 /\ \E i \in DOMAIN keys : keys[i] = None

\* x goes before y in the sorted list
KeyBefore(x, y, reverse) == IF reverse THEN StrLess(y.s, x.s) ELSE StrLess(x.s, y.s)

\* the stable insertion of index i into the sorted index list order
RECURSIVE InsertIndex(_, _, _, _)
InsertIndex(order, i, keys, reverse) ==
    IF order = <<>> THEN <<i>>
    ELSE IF KeyBefore(keys[i], keys[Head(order)], reverse) THEN <<i>> \o order
    ELSE <<Head(order)>> \o InsertIndex(Tail(order), i, keys, reverse)

RECURSIVE SortOrder(_, _, _)
SortOrder(n, keys, reverse) ==
    IF n = 0 THEN <<>>
    ELSE InsertIndex(SortOrder(n - 1, keys, reverse), n, keys, reverse)

Sorted(list, keys, reverse) ==
    LET order == SortOrder(Len(list), keys, reverse)
    IN  [i \in 1..Len(list) |-> list[order[i]]]

(***************************************************************************)
(* The HubSpot API as the tools see it: a request either raises inside     *)
(* requests (a network error) or returns a response with a status code and *)
(* a body; response.json() raises when the body is not JSON.               *)
(***************************************************************************)
HTTP_OK == 200

ErrorStatuses == {404, 500}

NetError == [net |-> "error"]

Http(status, json) == [net |-> "ok", status |-> status, json |-> json]

\* a body response.json() raises on
NotJson == [valid |-> FALSE]

Json(data) == [valid |-> TRUE, data |-> data]

\* the body HubSpot sends with an error status: it has no "error" key
ErrorBody == Json([status |-> "error", message |-> "request failed"])

\* response.text, up to what the model tells apart
Text(response) == IF response.json.valid THEN "json body" ELSE "raw body"

\* one entry of the "results" of an association list; HubSpot names the
\* linked record in toObjectId, and the code skips an entry without one
Link(id) == [toObjectId |-> id]

AssocEntries == {Link(id) : id \in Ids} \cup {EmptyDict}

AssocResponses ==
    {NetError}
    \cup {Http(s, b) : s \in ErrorStatuses,
                       b \in {ErrorBody, NotJson, Json([results |-> <<Link(1)>>])}}
    \cup {Http(HTTP_OK, NotJson), Http(HTTP_OK, Json(EmptyDict))}
    \cup {Http(HTTP_OK, Json([results |-> a])) : a \in SeqsUpTo(AssocEntries, MaxLinks)}

\* the associations the code reads from a list response it accepts
ResultsOf(response) ==
    IF response.net = "ok" /\ response.json.valid
    THEN Get(response.json.data, "results", <<>>)
    ELSE <<>>

LinkedIds(response) ==
    {e.toObjectId : e \in {x \in Range(ResultsOf(response)) : "toObjectId" \in DOMAIN x}}

\* hs_timestamp as HubSpot sends it: ISO 8601 in UTC, the fraction of a
\* second left out when it is zero.  The strings of the model are the
\* seconds field onwards ("1Z", "1.5Z"), the fields before it being equal.
Secs == {"1", "2"}

Tenths == {"5"}

TsStrings ==
    {<<d, "Z">> : d \in Secs} \cup {<<d, ".", f, "Z">> : d \in Secs, f \in Tenths}

\* strings that are no timestamp
BadTsStrings == {<<>>, <<"x">>}

AmountStrings ==
    {<<>>, <<"x">>, <<"0">>, <<"1">>, <<"2">>, <<"1", "2">>, <<"1", "x">>}

\* the property maps of a record of each object type
Props(objectType) ==
    CASE objectType \in {"notes", "emails"} ->
            {EmptyDict, [hs_timestamp |-> None]}
            \cup {[hs_timestamp |-> Str(s)] : s \in TsStrings \cup BadTsStrings}
      [] objectType = "line_items" ->
            {EmptyDict, [amount |-> None]}
            \cup {[amount |-> Str(s)] : s \in AmountStrings}
      [] OTHER -> {EmptyDict, [name |-> Str(<<"x">>)]}

RecordResponses(objectType) ==
    {NetError}
    \cup {Http(s, ErrorBody) : s \in ErrorStatuses}
    \cup {Http(HTTP_OK, NotJson), Http(HTTP_OK, Json(EmptyDict))}
    \cup {Http(HTTP_OK, Json([properties |-> p])) : p \in Props(objectType)}

\* the answers of the single-record endpoint for the records a list links
Stores(objectType, listResponse) ==
    [LinkedIds(listResponse) -> RecordResponses(objectType)]

\* the association endpoint answers in pages: a full page carries
\* paging.next.after, the cursor of the request for the page after it
NextPage == [next |-> [after |-> "cursor"]]

\* a full page: as many links as a page holds, to different records
FullPages ==
    {a \in [1..MaxLinks -> {Link(id) : id \in Ids}] :
        \A i, j \in DOMAIN a : a[i] = a[j] => i = j}

PagedResponses ==
    {Http(HTTP_OK, Json([results |-> a, paging |-> NextPage])) : a \in FullPages}

HasNextPage(response) ==
    response.net = "ok" /\ response.json.valid /\ "paging" \in DOMAIN response.json.data

\* the links of the pages after the first: one more linked record
LaterPages(listResponse) ==
    IF HasNextPage(listResponse) THEN {<<Link(MaxLinks + 1)>>} ELSE {<<>>}

LaterIds(later) == {e.toObjectId : e \in Range(later)}

\* the answers for a record of a later page, told apart by success only
LaterAnswers == {Http(404, ErrorBody), Http(HTTP_OK, Json([properties |-> EmptyDict]))}

StoresWith(objectType, listResponse, later) ==
    {s @@ l : s \in Stores(objectType, listResponse),
              l \in [LaterIds(later) -> LaterAnswers]}

\* the root record of the call exists in the CRM or does not; the
\* association list of a record that does not exist is answered 404
Roots == {"found", "missing"}

MissingRootResponses == {NetError, Http(404, ErrorBody)}

ListResponses(root) ==
    IF root = "found" THEN AssocResponses \cup PagedResponses ELSE MissingRootResponses

(***************************************************************************)
(* The run of a tool body: what it returns, the requests it issued, and    *)
(* the exception that ended it if one was raised.                          *)
(***************************************************************************)
Returns(ret, log) == [ret |-> ret, log |-> log, exc |-> "none"]

Raises(exc, log) == [ret |-> EmptyDict, log |-> log, exc |-> exc]

\* the list asked of the deals endpoint whatever the root is
AssocRequestOnDeals(root, category) ==
    [op |-> "associations", from |-> "deals", to |-> category]

AssocRequest(root, category) == [op |-> "associations", from |-> root, to |-> category]

ObjectRequest(objectType, id) == [op |-> "object", type |-> objectType, id |-> id]

\* no try around the body: the exception reaches the caller
ExceptHandlerMissing(run) ==
    IF run.exc = "none"
    THEN [ret |-> run.ret, log |-> run.log, fault |-> "none"]
    ELSE [ret |-> EmptyDict, log |-> run.log, fault |-> "propagated"]

\* except Exception as e: return {"error": str(e)}
ExceptHandler(run) ==
    IF run.exc = "none"
    THEN [ret |-> run.ret, log |-> run.log, fault |-> "none"]
    ELSE [ret |-> [error |-> <<run.exc>>], log |-> run.log, fault |-> "caught"]

\* the status of the association list not looked at
ListRefusedNever(response) == response.status \notin {HTTP_OK} \cup ErrorStatuses

\* if response.status_code != 200: the association list is refused
ListRefused(response) == response.status # HTTP_OK

\* the record taken whatever the status
RecordAcceptedAnyStatus(response) == response.status \in {HTTP_OK} \cup ErrorStatuses

\* if contact_response.status_code == 200: the record is taken
RecordAccepted(response) == response.status = HTTP_OK

\* the early return for an empty list left out
NoLinksIgnored(associations) == associations = <<>> /\ FALSE

\* if not associations: nothing is linked
NoLinks(associations) == associations = <<>>

\* the loop over the associations: one GET per linked id, a record appended
\* for each 200 answer; st is [list, log, exc]
RECURSIVE FetchLinked(_, _, _, _)
FetchLinked(objectType, associations, store, st) ==
    IF associations = <<>> \/ st.exc # "none" THEN st
    ELSE LET assoc == Head(associations)
             rest == Tail(associations)
         IN  IF "toObjectId" \notin DOMAIN assoc
             THEN FetchLinked(objectType, rest, store, st)
             ELSE LET id == assoc.toObjectId
                      response == store[id]
                      log == Append(st.log, ObjectRequest(objectType, id))
                  IN  IF response.net = "error"
                      THEN [st EXCEPT !.log = log, !.exc = "ConnectionError"]
                      ELSE IF ~RecordAccepted(response)
                      THEN FetchLinked(objectType, rest, store, [st EXCEPT !.log = log])
                      ELSE IF ~response.json.valid
                      THEN [st EXCEPT !.log = log, !.exc = "JSONDecodeError"]
                      ELSE FetchLinked(objectType, rest, store,
                               [st EXCEPT !.log = log,
                                          !.list = Append(@,
                                              [id |-> id,
                                               properties |->
                                                   Get(response.json.data, "properties", EmptyDict)])])

\* key=lambda x: x.get("properties", {}).get("hs_timestamp", "")
TimestampKey(record) == Get(record.properties, "hs_timestamp", Str(<<>>))

SortKeys(list) == [i \in 1..Len(list) |-> TimestampKey(list[i])]

\* the body shared by the association tools that return the records as
\* fetched (sorted = FALSE) or sorted by hs_timestamp descending
AssociationBody(root, category, noun, owner, sorted, listResponse, store) ==
    LET first == <<AssocRequest(root, category)>>
    IN  IF listResponse.net = "error" THEN Raises("ConnectionError", first)
        ELSE IF ListRefused(listResponse)
        THEN Returns([error |-> <<"Failed to get associations: ", Text(listResponse)>>], first)
        ELSE IF ~listResponse.json.valid THEN Raises("JSONDecodeError", first)
        ELSE LET associations == Get(listResponse.json.data, "results", <<>>)
             IN  IF NoLinks(associations)
                 THEN Returns((category :> <<>>)
                              @@ ("message" :> <<"No ", noun, " associated with this ", owner>>),
                              first)
                 ELSE LET st == FetchLinked(category, associations, store,
                                            [list |-> <<>>, log |-> first, exc |-> "none"])
                      IN  IF st.exc # "none" THEN Raises(st.exc, st.log)
                          ELSE IF sorted /\ SortRaises(SortKeys(st.list))
                          THEN Raises("TypeError", st.log)
                          ELSE LET list == IF sorted
                                           THEN Sorted(st.list, SortKeys(st.list), TRUE)
                                           ELSE st.list
                               IN  Returns((category :> list) @@ ("count" :> Len(list)),
                                           st.log)

get_deal_contacts(listResponse, store) ==
    ExceptHandler(AssociationBody("deals", "contacts", "contacts", "deal", FALSE,
                                  listResponse, store))

get_deal_companies(listResponse, store) ==
    ExceptHandler(AssociationBody("deals", "companies", "companies", "deal", FALSE,
                                  listResponse, store))

get_deal_notes(listResponse, store) ==
    ExceptHandler(AssociationBody("deals", "notes", "notes", "deal", TRUE,
                                  listResponse, store))

get_deal_emails(listResponse, store) ==
    ExceptHandler(AssociationBody("deals", "emails", "emails", "deal", TRUE,
                                  listResponse, store))

get_contact_notes(listResponse, store) ==
    ExceptHandler(AssociationBody("contacts", "notes", "notes", "contact", TRUE,
                                  listResponse, store))

(***************************************************************************)
(* get_deal_line_items: the same loop, with the running total.             *)
(***************************************************************************)
DigitValue(c) == (CHOOSE i \in 1..Len(Digits) : Digits[i] = c) - 1

IsDigit(c) == \E i \in 1..Len(Digits) : Digits[i] = c

\* the strings of the model float() accepts: the unsigned decimal integers
FloatParses(s) == s # <<>> /\ \A i \in DOMAIN s : IsDigit(s[i])

RECURSIVE FloatOf(_)
FloatOf(s) ==
    IF s = <<>> THEN 0
    ELSE 10 * FloatOf(SubSeq(s, 1, Len(s) - 1)) + DigitValue(s[Len(s)])

\* the truth of a value in "if props.get("amount"):"
Truthy(v) == v # None /\ v.s # <<>>

\* st is [list, total, log, exc]
RECURSIVE FetchLineItems(_, _, _)
FetchLineItems(associations, store, st) ==
    IF associations = <<>> \/ st.exc # "none" THEN st
    ELSE LET assoc == Head(associations)
             rest == Tail(associations)
         IN  IF "toObjectId" \notin DOMAIN assoc
             THEN FetchLineItems(rest, store, st)
             ELSE LET id == assoc.toObjectId
                      response == store[id]
                      log == Append(st.log, ObjectRequest("line_items", id))
                  IN  IF response.net = "error"
                      THEN [st EXCEPT !.log = log, !.exc = "ConnectionError"]
                      ELSE IF ~RecordAccepted(response)
                      THEN FetchLineItems(rest, store, [st EXCEPT !.log = log])
                      ELSE IF ~response.json.valid
                      THEN [st EXCEPT !.log = log, !.exc = "JSONDecodeError"]
                      ELSE LET props == Get(response.json.data, "properties", EmptyDict)
                               amount == Get(props, "amount", None)
                               got == [st EXCEPT !.log = log,
                                                 !.list = Append(@, [id |-> id,
                                                                     properties |-> props])]
                           IN  IF ~Truthy(amount)
                               THEN FetchLineItems(rest, store, got)
                               ELSE IF ~FloatParses(amount.s)
                               THEN [got EXCEPT !.exc = "ValueError"]
                               ELSE FetchLineItems(rest, store,
                                        [got EXCEPT !.total = @ + FloatOf(amount.s)])

LineItemsBody(listResponse, store) ==
    LET first == <<AssocRequest("deals", "line_items")>>
    IN  IF listResponse.net = "error" THEN Raises("ConnectionError", first)
        ELSE IF ListRefused(listResponse)
        THEN Returns([error |-> <<"Failed to get associations: ", Text(listResponse)>>], first)
        ELSE IF ~listResponse.json.valid THEN Raises("JSONDecodeError", first)
        ELSE LET associations == Get(listResponse.json.data, "results", <<>>)
             IN  IF NoLinks(associations)
                 THEN Returns([line_items |-> <<>>,
                               message |-> <<"No ", "line items", " associated with this ", "deal">>],
                              first)
                 ELSE LET st == FetchLineItems(associations, store,
                                    [list |-> <<>>, total |-> 0, log |-> first, exc |-> "none"])
                      IN  IF st.exc # "none" THEN Raises(st.exc, st.log)
                          ELSE Returns([line_items |-> st.list,
                                        count |-> Len(st.list),
                                        total_amount |-> st.total],
                                       st.log)

get_deal_line_items(listResponse, store) == ExceptHandler(LineItemsBody(listResponse, store))

(***************************************************************************)
(* get_deal_stage_history: one fetch of the deal with the history of its   *)
(* dealstage property.                                                     *)
(***************************************************************************)
StageIds == {<<"1">>, <<"2">>}

\* an entry of the history feed; entry.get("timestamp") is None without one
HistoryEntries ==
    {[value |-> Str(v), timestamp |-> Str(t), sourceType |-> Str(<<"x">>)] :
        v \in StageIds, t \in TsStrings}
    \cup {[value |-> Str(v), sourceType |-> Str(<<"x">>)] : v \in StageIds}

DealProperties == [dealname |-> Str(<<"x">>), dealstage |-> Str(<<"1">>), pipeline |-> Str(<<"2">>)]

DealBodies ==
    {Json(EmptyDict),
     Json([properties |-> DealProperties]),
     Json([properties |-> DealProperties, propertiesWithHistory |-> EmptyDict])}
    \cup {Json([properties |-> DealProperties,
                propertiesWithHistory |-> [dealstage |-> h]]) :
            h \in SeqsUpTo(HistoryEntries, MaxHist)}

DealResponses ==
    {NetError}
    \cup {Http(s, b) : s \in ErrorStatuses, b \in {ErrorBody, NotJson}}
    \cup {Http(HTTP_OK, NotJson)}
    \cup {Http(HTTP_OK, b) : b \in DealBodies}

StageEvent(entry) ==
    [stage_id |-> Get(entry, "value", None),
     timestamp |-> Get(entry, "timestamp", None),
     source |-> Get(entry, "sourceType", None)]

\* key=lambda x: x.get("timestamp", ""): the key is always there
StageKeys(history) == [i \in 1..Len(history) |-> Get(history[i], "timestamp", Str(<<>>))]

DealRequest(deal_id) == [op |-> "object", type |-> "deals", id |-> deal_id, history |-> "dealstage"]

StageHistoryBody(deal_id, response) ==
    LET log == <<DealRequest(deal_id)>>
    IN  IF response.net = "error" THEN Raises("ConnectionError", log)
        ELSE IF response.status # HTTP_OK
        THEN Returns([error |-> <<"Failed to get deal: ", Text(response)>>], log)
        ELSE IF ~response.json.valid THEN Raises("JSONDecodeError", log)
        ELSE LET data == response.json.data
                 properties == Get(data, "properties", EmptyDict)
                 properties_with_history == Get(data, "propertiesWithHistory", EmptyDict)
                 feed == IF "dealstage" \in DOMAIN properties_with_history
                         THEN properties_with_history["dealstage"]
                         ELSE <<>>
                 stage_history == [i \in 1..Len(feed) |-> StageEvent(feed[i])]
             IN  IF SortRaises(StageKeys(stage_history)) THEN Raises("TypeError", log)
                 ELSE LET sorted == Sorted(stage_history, StageKeys(stage_history), FALSE)
                      IN  Returns([deal_id |-> deal_id,
                                   deal_name |-> Get(properties, "dealname", None),
                                   current_stage |-> Get(properties, "dealstage", None),
                                   pipeline |-> Get(properties, "pipeline", None),
                                   stage_history |-> sorted,
                                   total_stage_changes |-> Len(sorted)],
                                  log)

get_deal_stage_history(deal_id, response) == ExceptHandler(StageHistoryBody(deal_id, response))

(***************************************************************************)
(* get_pipelines: the options of the pipeline property, then those of the  *)
(* dealstage property.                                                     *)
(***************************************************************************)
\* the longest option list of a property
MaxOptions == 2

Options ==
    {[value |-> "1", label |-> "Sales"], [value |-> "2", label |-> "Won"], [value |-> "1"]}

OptionResponses ==
    {NetError}
    \cup {Http(s, ErrorBody) : s \in ErrorStatuses}
    \cup {Http(HTTP_OK, NotJson), Http(HTTP_OK, Json(EmptyDict))}
    \cup {Http(HTTP_OK, Json([options |-> o])) : o \in SeqsUpTo(Options, MaxOptions)}

\* result[...][option["value"]] = option["label"] for each option; a
\* KeyError on an option without one of the two keys
RECURSIVE LabelMap(_, _)
LabelMap(options, map) ==
    IF options = <<>> THEN [map |-> map, exc |-> "none"]
    ELSE LET option == Head(options)
         IN  IF "value" \notin DOMAIN option \/ "label" \notin DOMAIN option
             THEN [map |-> map, exc |-> "KeyError"]
             ELSE LabelMap(Tail(options),
                           [k \in DOMAIN map \cup {option.value} |->
                               IF k = option.value THEN option.label ELSE map[k]])

PropertyRequest(name) == [op |-> "property", type |-> "deals", name |-> name]

\* one of the two fetches: the map filled when the status is 200
FetchOptions(name, response, log) ==
    LET issued == Append(log, PropertyRequest(name))
    IN  IF response.net = "error"
        THEN [map |-> EmptyDict, log |-> issued, exc |-> "ConnectionError"]
        ELSE IF response.status # HTTP_OK
        THEN [map |-> EmptyDict, log |-> issued, exc |-> "none"]
        ELSE IF ~response.json.valid
        THEN [map |-> EmptyDict, log |-> issued, exc |-> "JSONDecodeError"]
        ELSE LET filled == LabelMap(Get(response.json.data, "options", <<>>), EmptyDict)
             IN  [map |-> filled.map, log |-> issued, exc |-> filled.exc]

PipelinesBody(pipelineResponse, stageResponse) ==
    LET p == FetchOptions("pipeline", pipelineResponse, <<>>)
    IN  IF p.exc # "none" THEN Raises(p.exc, p.log)
        ELSE LET s == FetchOptions("dealstage", stageResponse, p.log)
             IN  IF s.exc # "none" THEN Raises(s.exc, s.log)
                 ELSE Returns([pipelines |-> p.map, stages |-> s.map], s.log)

get_pipelines(pipelineResponse, stageResponse) ==
    ExceptHandler(PipelinesBody(pipelineResponse, stageResponse))

(***************************************************************************)
(* The pass-through tools: one request each.                               *)
(***************************************************************************)
ObjectTypes == {"contacts", "companies", "deals"}

SearchHits == {<<>>, <<[id |-> "1"]>>}

\* a search answers with the hits and, as a rule, their total
SearchBodies ==
    {Json([total |-> Len(r), results |-> r]) : r \in SearchHits}
    \cup {Json([results |-> r]) : r \in SearchHits}

SearchResponses ==
    {NetError}
    \cup {Http(s, b) : s \in ErrorStatuses, b \in {ErrorBody, NotJson}}
    \cup {Http(HTTP_OK, NotJson)}
    \cup {Http(HTTP_OK, b) : b \in SearchBodies}

SearchProperties(object_type) ==
    IF object_type = "contacts" THEN <<"firstname", "lastname", "email", "phone", "company">>
    ELSE IF object_type = "companies" THEN <<"name", "domain", "industry">>
    ELSE <<"dealname", "amount", "dealstage", "pipeline", "closedate">>

SearchBody(query, object_type, response) ==
    LET log == <<[op |-> "search", type |-> object_type,
                  payload |-> [query |-> query, limit |-> 10,
                               properties |-> SearchProperties(object_type)]]>>
    IN  IF response.net = "error" THEN Raises("ConnectionError", log)
        ELSE IF ~response.json.valid THEN Raises("JSONDecodeError", log)
        ELSE Returns(response.json.data, log)

search_hubspot(query, object_type, response) ==
    ExceptHandler(SearchBody(query, object_type, response))

\* str.strip(), on the strings of the model
RECURSIVE LStrip(_)
LStrip(s) == IF s # <<>> /\ Head(s) = " " THEN LStrip(Tail(s)) ELSE s

RECURSIVE RStrip(_)
RStrip(s) == IF s # <<>> /\ s[Len(s)] = " " THEN RStrip(SubSeq(s, 1, Len(s) - 1)) ELSE s

Strip(s) == RStrip(LStrip(s))

\* "x is not None and str(x).strip()"
Given(x) == x # None /\ Strip(x.s) # <<>>

\* str() of a float of the model, a whole number of one digit
StrOfFloat(x) == <<Digits[x + 1], ".", "0">>

Filter(name, operator, value) == [propertyName |-> name, operator |-> operator, value |-> value]

Filters(pipeline, dealstage, hubspot_owner_id, min_amount, max_amount) ==
    (IF Given(pipeline) THEN <<Filter("pipeline", "EQ", pipeline.s)>> ELSE <<>>)
    \o (IF Given(dealstage) THEN <<Filter("dealstage", "EQ", dealstage.s)>> ELSE <<>>)
    \o (IF Given(hubspot_owner_id)
        THEN <<Filter("hubspot_owner_id", "EQ", hubspot_owner_id.s)>> ELSE <<>>)
    \o (IF min_amount # None THEN <<Filter("amount", "GTE", StrOfFloat(min_amount.x))>> ELSE <<>>)
    \o (IF max_amount # None THEN <<Filter("amount", "LTE", StrOfFloat(max_amount.x))>> ELSE <<>>)

FilterDealsBody(filters, limit, response) ==
    LET base == [limit |-> limit,
                 properties |-> <<"dealname", "amount", "dealstage", "pipeline",
                                  "closedate", "hubspot_owner_id">>]
        payload == IF filters # <<>>
                   THEN base @@ [filterGroups |-> <<[filters |-> filters]>>]
                   ELSE base
        log == <<[op |-> "search", type |-> "deals", payload |-> payload]>>
    IN  IF response.net = "error" THEN Raises("ConnectionError", log)
        ELSE IF ~response.json.valid THEN Raises("JSONDecodeError", log)
        ELSE LET found == response.json.data
             IN  IF "total" \in DOMAIN found
                 THEN Returns(("message" :> <<"Found ", found["total"], " deals matching filters">>)
                              @@ found, log)
                 ELSE Returns(found, log)

filter_deals(pipeline, dealstage, hubspot_owner_id, min_amount, max_amount, limit, response) ==
    ExceptHandler(FilterDealsBody(
        Filters(pipeline, dealstage, hubspot_owner_id, min_amount, max_amount),
        limit, response))

\* str.lower(), on the letters of the model
Lower(s) ==
    [i \in DOMAIN s |-> IF s[i] = "A" THEN "a" ELSE IF s[i] = "B" THEN "b" ELSE s[i]]

\* "sub in s"
Contains(sub, s) ==
    \E i \in 1..(Len(s) + 1) :
        i + Len(sub) - 1 <= Len(s) /\ SubSeq(s, i, i + Len(sub) - 1) = sub

Owners ==
    {[id |-> Str(<<"1">>), firstName |-> Str(<<"A">>), lastName |-> Str(<<"b">>),
      email |-> Str(<<"a", "@">>), archived |-> FALSE],
     [id |-> Str(<<"2">>), lastName |-> Str(<<"B">>), archived |-> TRUE],
     [id |-> Str(<<"3">>), firstName |-> Str(<<"b">>), email |-> Str(<<"B", "@">>)]}

OwnerQueries == {None, Str(<<>>), Str(<<"a">>), Str(<<"B">>)}

OwnerResponses ==
    {NetError}
    \cup {Http(s, b) : s \in ErrorStatuses, b \in {ErrorBody, NotJson}}
    \cup {Http(HTTP_OK, NotJson), Http(HTTP_OK, Json(EmptyDict))}
    \cup {Http(HTTP_OK, Json([results |-> r])) : r \in SeqsUpTo(Owners, MaxLinks)}

OwnerName(owner) ==
    Strip(Get(owner, "firstName", Str(<<>>)).s \o <<" ">> \o Get(owner, "lastName", Str(<<>>)).s)

\* the owner passes the filter on the query, if there is a query
OwnerKept(owner, query) ==
    \/ ~Truthy(query)
    \/ Contains(Lower(query.s), Lower(OwnerName(owner)))
    \/ Contains(Lower(query.s), Lower(Get(owner, "email", Str(<<>>)).s))

RECURSIVE OwnerList(_, _)
OwnerList(found, query) ==
    IF found = <<>> THEN <<>>
    ELSE LET owner == Head(found)
         IN  (IF OwnerKept(owner, query)
              THEN <<[id |-> Get(owner, "id", None),
                      name |-> OwnerName(owner),
                      email |-> Get(owner, "email", None),
                      active |-> ~Get(owner, "archived", FALSE)]>>
              ELSE <<>>)
             \o OwnerList(Tail(found), query)

SearchOwnersBody(query, response) ==
    LET params == IF Truthy(query) THEN [limit |-> 100, email |-> query.s] ELSE [limit |-> 100]
        log == <<[op |-> "owners", params |-> params]>>
    IN  IF response.net = "error" THEN Raises("ConnectionError", log)
        ELSE IF ~response.json.valid THEN Raises("JSONDecodeError", log)
        ELSE LET owners == OwnerList(Get(response.json.data, "results", <<>>), query)
             IN  Returns([owners |-> owners, count |-> Len(owners)], log)

search_owners(query, response) == ExceptHandler(SearchOwnersBody(query, response))

UpdateProperties == {EmptyDict, [dealstage |-> Str(<<"2">>)]}

UpdateResponses(properties) ==
    {NetError}
    \cup {Http(s, b) : s \in ErrorStatuses, b \in {ErrorBody, NotJson}}
    \cup {Http(HTTP_OK, NotJson), Http(HTTP_OK, Json([id |-> "1", properties |-> properties]))}

UpdateBody(object_type, object_id, properties, response) ==
    LET log == <<[op |-> "update", type |-> object_type, id |-> object_id,
                  payload |-> [properties |-> properties]]>>
    IN  IF response.net = "error" THEN Raises("ConnectionError", log)
        ELSE IF response.status = HTTP_OK
        THEN IF ~response.json.valid THEN Raises("JSONDecodeError", log)
             ELSE Returns([success |-> TRUE,
                           message |-> <<"Successfully updated ", object_type, " ", object_id>>,
                           updated_properties |-> properties,
                           result |-> response.json.data],
                          log)
        ELSE Returns([success |-> FALSE,
                      error |-> <<Text(response)>>,
                      status_code |-> response.status],
                     log)

update_hubspot(object_type, object_id, properties, response) ==
    ExceptHandler(UpdateBody(object_type, object_id, properties, response))

\* datetime.now().isoformat(), whatever the clock says
Clock == {"t1", "t2"}

HealthResponses ==
    {NetError}
    \cup {Http(s, b) : s \in ErrorStatuses, b \in {ErrorBody, NotJson}}
    \cup {Http(HTTP_OK, NotJson), Http(HTTP_OK, Json([results |-> <<>>]))}

HealthBody(response, now) ==
    LET log == <<[op |-> "list", type |-> "contacts", params |-> [limit |-> 1]]>>
    IN  IF response.net = "error" THEN Raises("ConnectionError", log)
        ELSE Returns([status |-> IF response.status = HTTP_OK THEN "connected" ELSE "error",
                      hubspot_api |-> (response.status = HTTP_OK),
                      timestamp |-> now],
                     log)

\* except Exception as e: return {"status": "error", "error": str(e)}
HealthExceptHandler(run) ==
    IF run.exc = "none"
    THEN [ret |-> run.ret, log |-> run.log, fault |-> "none"]
    ELSE [ret |-> [status |-> "error", error |-> <<run.exc>>], log |-> run.log,
          fault |-> "caught"]

health_check(response, now) == HealthExceptHandler(HealthBody(response, now))

(***************************************************************************)
(* The invocations.                                                        *)
(***************************************************************************)
Init ==
    /\ tool = "none"
    /\ api = EmptyDict
    /\ result = EmptyDict
    /\ requests = <<>>
    /\ fault = "none"

GetDealContacts ==
    /\ tool = "none"
    /\ \E root \in Roots :
           \E listResponse \in ListResponses(root) :
               \E later \in LaterPages(listResponse) :
                   \E store \in StoresWith("contacts", listResponse, later) :
                       LET out == get_deal_contacts(listResponse, store)
                       IN  /\ tool' = "get_deal_contacts"
                           /\ api' = [root |-> root, list |-> listResponse,
                                      later |-> later, store |-> store]
                           /\ result' = out.ret
                           /\ requests' = out.log
                           /\ fault' = out.fault

GetDealCompanies ==
    /\ tool = "none"
    /\ \E root \in Roots :
           \E listResponse \in ListResponses(root) :
               \E later \in LaterPages(listResponse) :
                   \E store \in StoresWith("companies", listResponse, later) :
                       LET out == get_deal_companies(listResponse, store)
                       IN  /\ tool' = "get_deal_companies"
                           /\ api' = [root |-> root, list |-> listResponse,
                                      later |-> later, store |-> store]
                           /\ result' = out.ret
                           /\ requests' = out.log
                           /\ fault' = out.fault

GetDealNotes ==
    /\ tool = "none"
    /\ \E root \in Roots :
           \E listResponse \in ListResponses(root) :
               \E later \in LaterPages(listResponse) :
                   \E store \in StoresWith("notes", listResponse, later) :
                       LET out == get_deal_notes(listResponse, store)
                       IN  /\ tool' = "get_deal_notes"
                           /\ api' = [root |-> root, list |-> listResponse,
                                      later |-> later, store |-> store]
                           /\ result' = out.ret
                           /\ requests' = out.log
                           /\ fault' = out.fault

GetDealEmails ==
    /\ tool = "none"
    /\ \E root \in Roots :
           \E listResponse \in ListResponses(root) :
               \E later \in LaterPages(listResponse) :
                   \E store \in StoresWith("emails", listResponse, later) :
                       LET out == get_deal_emails(listResponse, store)
                       IN  /\ tool' = "get_deal_emails"
                           /\ api' = [root |-> root, list |-> listResponse,
                                      later |-> later, store |-> store]
                           /\ result' = out.ret
                           /\ requests' = out.log
                           /\ fault' = out.fault

GetContactNotes ==
    /\ tool = "none"
    /\ \E root \in Roots :
           \E listResponse \in ListResponses(root) :
               \E later \in LaterPages(listResponse) :
                   \E store \in StoresWith("notes", listResponse, later) :
                       LET out == get_contact_notes(listResponse, store)
                       IN  /\ tool' = "get_contact_notes"
                           /\ api' = [root |-> root, list |-> listResponse,
                                      later |-> later, store |-> store]
                           /\ result' = out.ret
                           /\ requests' = out.log
                           /\ fault' = out.fault

GetDealLineItems ==
    /\ tool = "none"
    /\ \E root \in Roots :
           \E listResponse \in ListResponses(root) :
               \E later \in LaterPages(listResponse) :
                   \E store \in StoresWith("line_items", listResponse, later) :
                       LET out == get_deal_line_items(listResponse, store)
                       IN  /\ tool' = "get_deal_line_items"
                           /\ api' = [root |-> root, list |-> listResponse,
                                      later |-> later, store |-> store]
                           /\ result' = out.ret
                           /\ requests' = out.log
                           /\ fault' = out.fault

GetDealStageHistory ==
    /\ tool = "none"
    /\ \E response \in DealResponses :
           LET out == get_deal_stage_history("D1", response)
           IN  /\ tool' = "get_deal_stage_history"
               /\ api' = [deal |-> response]
               /\ result' = out.ret
               /\ requests' = out.log
               /\ fault' = out.fault

GetPipelines ==
    /\ tool = "none"
    /\ \E pipelineResponse \in OptionResponses, stageResponse \in OptionResponses :
           LET out == get_pipelines(pipelineResponse, stageResponse)
           IN  /\ tool' = "get_pipelines"
               /\ api' = [pipeline |-> pipelineResponse, dealstage |-> stageResponse]
               /\ result' = out.ret
               /\ requests' = out.log
               /\ fault' = out.fault

SearchHubspot ==
    /\ tool = "none"
    /\ \E query \in {<<"a">>}, object_type \in ObjectTypes, response \in SearchResponses :
           LET out == search_hubspot(query, object_type, response)
           IN  /\ tool' = "search_hubspot"
               /\ api' = [query |-> query, object_type |-> object_type, search |-> response]
               /\ result' = out.ret
               /\ requests' = out.log
               /\ fault' = out.fault

FilterStrings == {None, Str(<<>>), Str(<<" ">>), Str(<<"1">>)}

FilterAmounts == {None, [t |-> "float", x |-> 5]}

FilterDeals ==
    /\ tool = "none"
    /\ \E pipeline \in FilterStrings, dealstage \in FilterStrings,
          hubspot_owner_id \in FilterStrings, min_amount \in FilterAmounts,
          max_amount \in FilterAmounts, response \in SearchResponses :
           LET out == filter_deals(pipeline, dealstage, hubspot_owner_id, min_amount,
                                   max_amount, 50, response)
           IN  /\ tool' = "filter_deals"
               /\ api' = [pipeline |-> pipeline, dealstage |-> dealstage,
                          hubspot_owner_id |-> hubspot_owner_id, min_amount |-> min_amount,
                          max_amount |-> max_amount, search |-> response]
               /\ result' = out.ret
               /\ requests' = out.log
               /\ fault' = out.fault

SearchOwners ==
    /\ tool = "none"
    /\ \E query \in OwnerQueries, response \in OwnerResponses :
           LET out == search_owners(query, response)
           IN  /\ tool' = "search_owners"
               /\ api' = [query |-> query, owners |-> response]
               /\ result' = out.ret
               /\ requests' = out.log
               /\ fault' = out.fault

UpdateHubspot ==
    /\ tool = "none"
    /\ \E object_type \in ObjectTypes, properties \in UpdateProperties :
           \E response \in UpdateResponses(properties) :
               LET out == update_hubspot(object_type, "1", properties, response)
               IN  /\ tool' = "update_hubspot"
                   /\ api' = [object_type |-> object_type, properties |-> properties,
                              update |-> response]
                   /\ result' = out.ret
                   /\ requests' = out.log
                   /\ fault' = out.fault

HealthCheck ==
    /\ tool = "none"
    /\ \E response \in HealthResponses, now \in Clock :
           LET out == health_check(response, now)
           IN  /\ tool' = "health_check"
               /\ api' = [contacts |-> response, now |-> now]
               /\ result' = out.ret
               /\ requests' = out.log
               /\ fault' = out.fault

Next ==
    \/ GetPipelines
    \/ SearchHubspot
    \/ FilterDeals
    \/ SearchOwners
    \/ UpdateHubspot
    \/ HealthCheck
    \/ GetDealLineItems
    \/ GetDealStageHistory
    \/ GetDealContacts
    \/ GetDealCompanies
    \/ GetDealNotes
    \/ GetDealEmails
    \/ GetContactNotes

Spec == Init /\ [][Next]_vars

(***************************************************************************)
(* What the properties speak of.                                           *)
(***************************************************************************)
EnrichmentTools ==
    {"get_deal_contacts", "get_deal_companies", "get_deal_line_items",
     "get_deal_notes", "get_deal_emails", "get_contact_notes"}

SortedTools == {"get_deal_notes", "get_deal_emails", "get_contact_notes"}

\* the key of the record list in the result of an enrichment tool
ListKey(name) ==
    CASE name = "get_deal_contacts" -> "contacts"
      [] name = "get_deal_companies" -> "companies"
      [] name = "get_deal_line_items" -> "line_items"
      [] name = "get_deal_emails" -> "emails"
      [] OTHER -> "notes"

HasError == "error" \in DOMAIN result

\* a request that fails: a network error, a status other than 200, or a
\* body that is not JSON
Failed(response) ==
    \/ response.net = "error"
    \/ response.status # HTTP_OK
    \/ ~response.json.valid

\* the association list call succeeded: a 200 answer with a JSON body
ListSucceeded ==
    /\ tool \in EnrichmentTools
    /\ api.list.net = "ok"
    /\ api.list.status = HTTP_OK
    /\ api.list.json.valid

Listed == ResultsOf(api.list)

ReturnsList == tool \in EnrichmentTools /\ ListKey(tool) \in DOMAIN result

Returned == result[ListKey(tool)]

ReturnedIds == [i \in 1..Len(Returned) |-> Returned[i].id]

ObjectRequests == {i \in DOMAIN requests : requests[i].op = "object"}

\* the linked ids whose single-record fetch succeeds, in listing order
RECURSIVE SuccessfulIds(_, _)
SuccessfulIds(associations, store) ==
    IF associations = <<>> THEN <<>>
    ELSE (IF "toObjectId" \in DOMAIN Head(associations)
             /\ ~Failed(store[Head(associations).toObjectId])
          THEN <<Head(associations).toObjectId>>
          ELSE <<>>)
         \o SuccessfulIds(Tail(associations), store)

Count(seq, x) == Cardinality({i \in DOMAIN seq : seq[i] = x})

\* the instant a timestamp string names, in tenths of a second
IsTimestamp(s) ==
    /\ Len(s) \in {2, 4}
    /\ IsDigit(s[1])
    /\ s[Len(s)] = "Z"
    /\ Len(s) = 4 => (s[2] = "." /\ IsDigit(s[3]))

TimeOf(s) == 10 * DigitValue(s[1]) + (IF Len(s) = 4 THEN DigitValue(s[3]) ELSE 0)

Parseable(v) == v # None /\ IsTimestamp(v.s)

\* the single-record fetch succeeds with a record the tool's own
\* post-processing accepts: a str timestamp key, an amount float() takes
Hydrates(name, response) ==
    /\ ~Failed(response)
    /\ LET props == Get(response.json.data, "properties", EmptyDict)
           amount == Get(props, "amount", None)
       IN  /\ name \in SortedTools => Get(props, "hs_timestamp", Str(<<>>)) # None
           /\ name = "get_deal_line_items" => (~Truthy(amount) \/ FloatParses(amount.s))

SameIds(seq1, seq2) == \A id \in Ids : Count(seq1, id) = Count(seq2, id)

(***************************************************************************)
(* C1.  In every association enrichment tool, when the association list    *)
(* succeeds and the fetch of one linked id fails (network error, non-2xx   *)
(* status or malformed body) while the others hydrate, the failed id is    *)
(* left out and the call returns the records of the other linked ids with  *)
(* no error field.                                                         *)
(***************************************************************************)
C1_OneBadRecordTolerated ==
    ListSucceeded =>
        \A bad \in LinkedIds(api.list) :
            ( /\ Failed(api.store[bad])
              /\ \A other \in LinkedIds(api.list) \ {bad} :
                    Hydrates(tool, api.store[other]) )
            => /\ ~HasError
               /\ ReturnsList
               /\ SameIds(ReturnedIds, SuccessfulIds(Listed, api.store))

(***************************************************************************)
(* C2.  When an association enrichment call returns a record list, the     *)
(* returned ids are exactly the linked ids whose single-record fetch       *)
(* succeeded: the count is at most the number of links listed and equals   *)
(* the number of successful fetches, every returned id is a listed id, and *)
(* contacts and companies come in listing order.                           *)
(***************************************************************************)
C2_ReturnedAreTheSuccessful ==
    ReturnsList =>
        LET ok == SuccessfulIds(Listed, api.store)
        IN  /\ Len(Returned) <= Len(Listed)
            /\ Len(Returned) = Len(ok)
            /\ "count" \in DOMAIN result => result["count"] = Len(ok)
            /\ SameIds(ReturnedIds, ok)
            /\ \A i \in DOMAIN Returned : Returned[i].id \in LinkedIds(api.list)
            /\ tool \in {"get_deal_contacts", "get_deal_companies"} => ReturnedIds = ok

\* two companies are linked, the fetch of the first is answered 404, and
\* the second is returned alone
C2_Witness ==
    /\ tool = "get_deal_companies"
    /\ ListSucceeded
    /\ Len(Listed) = 2
    /\ \A i \in DOMAIN Listed : "toObjectId" \in DOMAIN Listed[i]
    /\ api.store[Listed[1].toObjectId] = Http(404, ErrorBody)
    /\ ReturnsList
    /\ "count" \in DOMAIN result
    /\ result["count"] = 1
    /\ Cardinality(ObjectRequests) = 2
    /\ ReturnedIds = <<Listed[2].toObjectId>>

(***************************************************************************)
(* C3.  For every association category, when the association list call     *)
(* succeeds with zero links, the tool returns the category's empty list    *)
(* with the message "No <category> associated with this deal/contact" and  *)
(* no error field, and issues no single-record fetch.                      *)
(***************************************************************************)
NoLinksMessage(name) ==
    CASE name = "get_deal_contacts" -> <<"No ", "contacts", " associated with this ", "deal">>
      [] name = "get_deal_companies" -> <<"No ", "companies", " associated with this ", "deal">>
      [] name = "get_deal_line_items" -> <<"No ", "line items", " associated with this ", "deal">>
      [] name = "get_deal_notes" -> <<"No ", "notes", " associated with this ", "deal">>
      [] name = "get_deal_emails" -> <<"No ", "emails", " associated with this ", "deal">>
      [] name = "get_contact_notes" -> <<"No ", "notes", " associated with this ", "contact">>

C3_NoLinksGivesEmptyListAndMessage ==
    (ListSucceeded /\ Listed = <<>>) =>
        /\ ~HasError
        /\ DOMAIN result = {ListKey(tool), "message"}
        /\ Returned = <<>>
        /\ result["message"] = NoLinksMessage(tool)
        /\ ObjectRequests = {}
        /\ Len(requests) = 1

C3_Witness ==
    /\ tool = "get_contact_notes"
    /\ ListSucceeded
    /\ "results" \in DOMAIN api.list.json.data
    /\ Listed = <<>>
    /\ result = [notes |-> <<>>, message |-> NoLinksMessage("get_contact_notes")]

(***************************************************************************)
(* C4.  In the results of get_deal_notes, get_contact_notes and            *)
(* get_deal_emails, of two returned records with parseable timestamps the  *)
(* one whose timestamp is later in time comes first.                       *)
(***************************************************************************)
C4_LaterComesFirst ==
    (tool \in SortedTools /\ ReturnsList) =>
        \A i, j \in DOMAIN Returned :
            LET a == TimestampKey(Returned[i])
                b == TimestampKey(Returned[j])
            IN  (Parseable(a) /\ Parseable(b) /\ TimeOf(a.s) > TimeOf(b.s)) => i < j

(***************************************************************************)
(* C5.  get_deal_stage_history, on a successful fetch of the deal, returns *)
(* one stage event per entry of the dealstage history feed                 *)
(* (total_stage_changes is the number of entries), oldest first, whatever  *)
(* the order of the feed.  Stated for the feeds whose entries all carry a  *)
(* timestamp.                                                              *)
(***************************************************************************)
Feed ==
    Get(Get(api.deal.json.data, "propertiesWithHistory", EmptyDict), "dealstage", <<>>)

DealFetched ==
    /\ tool = "get_deal_stage_history"
    /\ api.deal.net = "ok"
    /\ api.deal.status = HTTP_OK
    /\ api.deal.json.valid

C5_StageHistoryOldestFirst ==
    (DealFetched /\ \A i \in DOMAIN Feed : Parseable(Get(Feed[i], "timestamp", None))) =>
        /\ ~HasError
        /\ "stage_history" \in DOMAIN result
        /\ LET history == result["stage_history"]
           IN  /\ Len(history) = Len(Feed)
               /\ result["total_stage_changes"] = Len(Feed)
               /\ \A e \in Range(Feed) :
                     Count(history, StageEvent(e)) = Count(Feed, e)
               /\ \A i, j \in DOMAIN history :
                     i < j => TimeOf(history[i].timestamp.s) <= TimeOf(history[j].timestamp.s)

(***************************************************************************)
(* C6.  get_deal_line_items returns total_amount equal to the sum of the   *)
(* amounts that parse as numbers over the fetched line items; an item      *)
(* whose amount is missing, empty or non-numeric contributes 0, stays in   *)
(* line_items and does not make the result an error.  Stated for the calls *)
(* none of whose requests raises.                                          *)
(***************************************************************************)
AmountOf(response) ==
    LET amount == Get(Get(response.json.data, "properties", EmptyDict), "amount", None)
    IN  IF amount # None /\ FloatParses(amount.s) THEN FloatOf(amount.s) ELSE 0

RECURSIVE SumOfAmounts(_, _)
SumOfAmounts(ids, store) ==
    IF ids = <<>> THEN 0
    ELSE AmountOf(store[Head(ids)]) + SumOfAmounts(Tail(ids), store)

\* the request is answered, and with JSON if it is answered 200
Answered(response) ==
    response.net = "ok" /\ (response.status = HTTP_OK => response.json.valid)

C6_TotalIsSumOfParseableAmounts ==
    ( /\ tool = "get_deal_line_items"
      /\ ListSucceeded
      /\ Listed # <<>>
      /\ \A id \in LinkedIds(api.list) : Answered(api.store[id]) )
    => /\ ~HasError
       /\ ReturnsList
       /\ ReturnedIds = SuccessfulIds(Listed, api.store)
       /\ result["total_amount"] = SumOfAmounts(SuccessfulIds(Listed, api.store), api.store)

(***************************************************************************)
(* C7.  get_pipelines: whenever exactly one of the two fetches fails       *)
(* (non-2xx status, network error or malformed body), the result has an    *)
(* empty map for the failed half, the populated map for the other half,    *)
(* and no error field.                                                     *)
(***************************************************************************)
HalfKey(name) == IF name = "pipeline" THEN "pipelines" ELSE "stages"

OptionsOf(response) == Get(response.json.data, "options", <<>>)

\* the fetch succeeds and every option has its value and its label
OptionsFetched(response) ==
    /\ ~Failed(response)
    /\ \A o \in Range(OptionsOf(response)) : {"value", "label"} \subseteq DOMAIN o

\* value -> label, the last option of a value winning
Labels(options) ==
    [v \in {o.value : o \in Range(options)} |->
        LET last == CHOOSE i \in DOMAIN options :
                        /\ options[i].value = v
                        /\ \A j \in DOMAIN options : options[j].value = v => j <= i
        IN  options[last].label]

C7_OneFailedHalfIsEmpty ==
    tool = "get_pipelines" =>
        \A failed \in {"pipeline", "dealstage"} :
            LET other == IF failed = "pipeline" THEN "dealstage" ELSE "pipeline"
            IN  (Failed(api[failed]) /\ OptionsFetched(api[other])) =>
                    /\ ~HasError
                    /\ DOMAIN result = {"pipelines", "stages"}
                    /\ result[HalfKey(failed)] = EmptyDict
                    /\ result[HalfKey(other)] = Labels(OptionsOf(api[other]))

(***************************************************************************)
(* C8.  Every tool invocation returns a result object: an exception raised *)
(* at any point of the call, by a request or by a processing step, is      *)
(* turned into a result with an error field and does not reach the caller. *)
(***************************************************************************)
\* the answer the API gave to a request of the log
AnswerTo(request) ==
    CASE request.op = "associations" -> api.list
      [] request.op = "object" /\ tool \in EnrichmentTools -> api.store[request.id]
      [] request.op = "object" /\ tool \notin EnrichmentTools -> api.deal
      [] request.op = "property" -> api[request.name]
      [] request.op = "search" -> api.search
      [] request.op = "owners" -> api.owners
      [] request.op = "update" -> api.update
      [] request.op = "list" -> api.contacts

C8_FaultsBecomeErrorResults ==
    tool # "none" =>
        /\ fault \in {"none", "caught"}
        /\ fault = "caught" => HasError
        /\ (\E i \in DOMAIN requests : AnswerTo(requests[i]).net = "error") =>
               (fault = "caught" /\ HasError)

\* the sort of two fetched notes raises on a null timestamp
C8_Witness ==
    /\ tool = "get_deal_notes"
    /\ Cardinality(LinkedIds(api.list)) = 2
    /\ Cardinality(ObjectRequests) = 2
    /\ \A i \in DOMAIN requests : AnswerTo(requests[i]).net = "ok"
    /\ fault = "caught"
    /\ result = [error |-> <<"TypeError">>]

(***************************************************************************)
(* C9.  In every association enrichment tool, an association list call     *)
(* answered with a non-2xx status aborts the enrichment: the result has an *)
(* error field and no record list, and no single-record fetch follows.     *)
(***************************************************************************)
ListRefusedByApi ==
    /\ tool \in EnrichmentTools
    /\ api.list.net = "ok"
    /\ api.list.status # HTTP_OK

C9_RefusedListAborts ==
    ListRefusedByApi =>
        /\ HasError
        /\ ~ReturnsList
        /\ Len(requests) = 1
        /\ requests[1].op = "associations"
        /\ ObjectRequests = {}

\* the refused answer even names a linked record, and it is not fetched
C9_Witness ==
    /\ tool = "get_deal_emails"
    /\ api.list = Http(500, Json([results |-> <<Link(1)>>]))
    /\ DOMAIN result = {"error"}
    /\ requests = <<AssocRequest("deals", "emails")>>

(***************************************************************************)
(* C10.  The result lacks an error key only if the operation succeeded:    *)
(* whenever the root-level request of a tool is answered with a non-2xx    *)
(* status, the result carries an error field (search_hubspot,              *)
(* filter_deals, search_owners, health_check, update_hubspot,              *)
(* get_deal_stage_history and the association enrichment tools).           *)
(***************************************************************************)
C10_Tools ==
    EnrichmentTools
    \cup {"search_hubspot", "filter_deals", "search_owners", "health_check",
          "update_hubspot", "get_deal_stage_history"}

C10_ErrorStatusGivesErrorField ==
    ( /\ tool \in C10_Tools
      /\ AnswerTo(requests[1]).net = "ok"
      /\ AnswerTo(requests[1]).status # HTTP_OK )
    => HasError

(***************************************************************************)
(* C11.  Association listing pages through the association endpoint until  *)
(* the API reports no further page: when the links of a root span more     *)
(* than one page, the linked ids of the later pages are requested,         *)
(* hydrated and returned like those of the first page.  Stated for the     *)
(* calls all of whose linked records hydrate.                              *)
(***************************************************************************)
AssocRequests == {i \in DOMAIN requests : requests[i].op = "associations"}

C11_LaterPagesAreHydrated ==
    ( /\ ListSucceeded
      /\ api.later # <<>>
      /\ \A id \in DOMAIN api.store : Hydrates(tool, api.store[id]) )
    => /\ ~HasError
       /\ ReturnsList
       /\ Cardinality(AssocRequests) >= 2
       /\ \A id \in LaterIds(api.later) : id \in Range(ReturnedIds)

(***************************************************************************)
(* C12.  As claimed: for the contact and deal enrichment tools the         *)
(* existence of the root record is verified first, and when the root does  *)
(* not exist the tool returns an error result and the association list     *)
(* request is never issued.                                                *)
(***************************************************************************)
C12_RootVerifiedBeforeListing ==
    (tool \in EnrichmentTools /\ api.root = "missing" /\ api.list.net = "ok") =>
        /\ HasError
        /\ AssocRequests = {}

(***************************************************************************)
(* C12, as amended.  The root record is not fetched on its own: the first  *)
(* request of every enrichment call is the association list request for    *)
(* the root; when the root does not exist and that request is answered     *)
(* 404, the tool returns the error result that carries the text of the     *)
(* answer, and no other request is issued.                                 *)
(***************************************************************************)
RootType(name) == IF name = "get_contact_notes" THEN "contacts" ELSE "deals"

\* GET /crm/v4/objects/<root type>/<root id>/associations/<category>
ListRequestOf(name) == [op |-> "associations", from |-> RootType(name), to |-> ListKey(name)]

C12_MissingRootFailsAtTheList ==
    tool \in EnrichmentTools =>
        /\ requests # <<>>
        /\ requests[1] = ListRequestOf(tool)
        /\ (api.root = "missing" /\ api.list.net = "ok" /\ api.list.status = 404) =>
              /\ requests = <<ListRequestOf(tool)>>
              /\ result = [error |-> <<"Failed to get associations: ", Text(api.list)>>]

C12_Witness ==
    /\ tool = "get_contact_notes"
    /\ api.root = "missing"
    /\ api.list = Http(404, ErrorBody)
    /\ requests = <<ListRequestOf("get_contact_notes")>>
    /\ result = [error |-> <<"Failed to get associations: ", "json body">>]

(***************************************************************************)
(* C13.  In get_deal_notes and get_contact_notes, every fetched note whose *)
(* timestamp is absent, null or not parseable is still returned and comes  *)
(* after all notes with a parseable timestamp; notes that tie (equal       *)
(* times, or both unparseable) keep their listing order; such a note never *)
(* makes the result an error.  Stated for the calls none of whose requests *)
(* raises and whose links are to different notes.                          *)
(***************************************************************************)
NoteTools == {"get_deal_notes", "get_contact_notes"}

DistinctLinks ==
    /\ \A i \in DOMAIN Listed : "toObjectId" \in DOMAIN Listed[i]
    /\ \A i, j \in DOMAIN Listed : Listed[i] = Listed[j] => i = j

ListPosition(id) == CHOOSE i \in DOMAIN Listed : Listed[i].toObjectId = id

Tie(a, b) ==
    \/ ~Parseable(a) /\ ~Parseable(b)
    \/ Parseable(a) /\ Parseable(b) /\ TimeOf(a.s) = TimeOf(b.s)

C13_UnparseableNotesComeLast ==
    ( /\ tool \in NoteTools
      /\ ListSucceeded
      /\ Listed # <<>>
      /\ DistinctLinks
      /\ \A id \in LinkedIds(api.list) : Answered(api.store[id]) )
    => /\ ~HasError
       /\ ReturnsList
       /\ SameIds(ReturnedIds, SuccessfulIds(Listed, api.store))
       /\ \A i, j \in DOMAIN Returned :
             LET a == TimestampKey(Returned[i])
                 b == TimestampKey(Returned[j])
             IN  /\ (Parseable(a) /\ ~Parseable(b)) => i < j
                 /\ (i < j /\ Tie(a, b)) =>
                        ListPosition(Returned[i].id) < ListPosition(Returned[j].id)

====
